---- MODULE Spec2Model ----
(***************************************************************************)
(* Model of the quote similarity code of the staged quotes demo:           *)
(*   src/04-cf-quotes-mcp/similarity.py  (_cosine_similarity,              *)
(*        search_word_similarity, search_similar_quotes)                   *)
(*   src/04-cf-quotes-mcp/app.py         (the search_quotes and            *)
(*        compare_words tools)                                             *)
(*   src/03-cf-quotes-semantic/app.py    (GET /quotes)                     *)
(*   src/03-cf-quotes-semantic/quotes.py (initialize_quotes)               *)
(*                                                                         *)
(* Numbers.  Embedding components are small integers.  A cosine score is   *)
(* kept exactly as the pair [num, den2] that stands for num / sqrt(den2),  *)
(* so that no rounding is introduced by the model.  Distances and quote    *)
(* similarities are fixed-point numbers in tenths (One = 1.0).             *)
(***************************************************************************)
EXTENDS Integers, Sequences, FiniteSets, TLC

VARIABLES
    vec1, vec2, cos_ret,   \* the arguments and the outcome of one _cosine_similarity call
    scale, scaled_ret,     \* a positive factor and the outcome of the call on (scale * vec1, vec2)
    store,                 \* rows of the inspirational_quotes collection, in insertion order
    vectorstore,           \* stage 4 app.py: global vectorstore
    embeddings,            \* stage 4 app.py: global embeddings
    vectorstore3,          \* stage 3 app.py: global vectorstore
    embeddings3,           \* stage 3 app.py: global embeddings
    response,              \* the call that has returned and is not yet delivered
    heap,                  \* the list objects of the interpreter, by object number
    embed_table,           \* what the embedding service answers for each word
    heap_ret,              \* what the last call on list objects returned
    threads,               \* the tool calls in flight, one per worker thread
    app,                   \* the application that is deployed
    quotes_db              \* stage 2: the quotes table and its id sequence

cosVars    == <<vec1, vec2, cos_ret, scale, scaled_ret>>
serverVars == <<store, vectorstore, embeddings, vectorstore3, embeddings3, response>>
heapVars   == <<heap, embed_table, heap_ret>>
postgresVars == <<app, quotes_db>>
vars       == <<cosVars, serverVars, heapVars, threads, postgresVars>>

\* the variables no server operation touches
outsideServer == <<cosVars, heapVars, threads, postgresVars>>
\* the variables no call of _cosine_similarity touches
outsideCosine == <<serverVars, heapVars, threads, postgresVars>>

\* the value of a result variable before the call has returned
None == [kind |-> "None"]

Returned(r) == r.kind # "None"

\* the parts of the state a specification does not use stay as constructed
NoCosineCall ==
    /\ vec1 = <<>>
    /\ vec2 = <<>>
    /\ scale = 1
    /\ cos_ret = None
    /\ scaled_ret = None

\* module load of the applications: no handle yet, an empty collection
ServerLoaded ==
    /\ store = <<>>
    /\ vectorstore = None
    /\ embeddings = None
    /\ vectorstore3 = None
    /\ embeddings3 = None
    /\ response = None

NoObjects ==
    /\ heap = <<>>
    /\ embed_table = None
    /\ heap_ret = None

NoThreads == threads = <<>>

\* a database in which CREATE TABLE quotes has not run yet
NewDb == [exists |-> FALSE, rows |-> <<>>, seq |-> 0]

\* stages 3 and 4 deployed, stage 2 not
SemanticApp ==
    /\ app = "semantic"
    /\ quotes_db = NewDb

\* ---------------------------------------------------------------- bounds
MaxDim == 2          \* longest embedding vector
MaxAbs == 1          \* largest absolute value of a component

Components == (0 - MaxAbs)..MaxAbs

Vectors == UNION {[1..n -> Components] : n \in 0..MaxDim}

\* ------------------------------------------------------- _cosine_similarity
\* sum(a * b for a, b in zip(v, w)); zip stops at the shorter argument
RECURSIVE SumProducts(_, _)
SumProducts(v, w) ==
    IF v = <<>> \/ w = <<>> THEN 0
    ELSE Head(v) * Head(w) + SumProducts(Tail(v), Tail(w))

\* the float 0.0 and the score num / sqrt(den2)
ZeroScore == [num |-> 0, den2 |-> 1]

Score(num, den2) == [num |-> num, den2 |-> den2]

\* x == 1.0 for a score x
IsOne(x) == x.num > 0 /\ x.num * x.num = x.den2

\* x == 0.0 for a score x
IsZero(x) == x.num = 0

Sign(n) == IF n > 0 THEN 1 ELSE IF n < 0 THEN 0 - 1 ELSE 0

\* x < y for two scores
ScoreLess(x, y) ==
    LET sx == Sign(x.num)
        sy == Sign(y.num)
        l  == x.num * x.num * y.den2
        r  == y.num * y.num * x.den2
    IN  IF sx # sy THEN sx < sy
        ELSE IF sx >= 0 THEN l < r ELSE l > r

\* x == y as floats (the same real number)
ScoreEq(x, y) == ~ScoreLess(x, y) /\ ~ScoreLess(y, x)

ValueError(msg) == [kind |-> "ValueError", message |-> msg]

Ok(v) == [kind |-> "ok", value |-> v]

DimensionError(v1, v2) ==
    ValueError(<<"Vectors must have same dimension", Len(v1), "vs", Len(v2)>>)

\* the length check placed behind the zero-norm fallback
cosine_similarity_late_check(v1, v2) ==
    LET dot_product == SumProducts(v1, v2)
        norm1sq     == SumProducts(v1, v1)
        norm2sq     == SumProducts(v2, v2)
    IN  IF norm1sq = 0 \/ norm2sq = 0 THEN Ok(ZeroScore)
        ELSE IF Len(v1) # Len(v2) THEN DimensionError(v1, v2)
             ELSE Ok(Score(dot_product, norm1sq * norm2sq))

\* only norm1 guarded: a zero vec2 divides by zero
cosine_similarity_norm1_guard(v1, v2) ==
    IF Len(v1) # Len(v2) THEN DimensionError(v1, v2)
    ELSE LET dot_product == SumProducts(v1, v2)
             norm1sq     == SumProducts(v1, v1)
             norm2sq     == SumProducts(v2, v2)
         IN  IF norm1sq = 0 THEN Ok(ZeroScore)
             ELSE IF norm2sq = 0 THEN [kind |-> "ZeroDivisionError"]
             ELSE Ok(Score(dot_product, norm1sq * norm2sq))

\* the norms without the square root
cosine_similarity_no_sqrt(v1, v2) ==
    IF Len(v1) # Len(v2) THEN DimensionError(v1, v2)
    ELSE LET dot_product == SumProducts(v1, v2)
             norm1sq     == SumProducts(v1, v1)
             norm2sq     == SumProducts(v2, v2)
         IN  IF norm1sq = 0 \/ norm2sq = 0 THEN Ok(ZeroScore)
             ELSE Ok(Score(dot_product, (norm1sq * norm2sq) * (norm1sq * norm2sq)))

\* norm1 used for both magnitudes
cosine_similarity_norm1_twice(v1, v2) ==
    IF Len(v1) # Len(v2) THEN DimensionError(v1, v2)
    ELSE LET dot_product == SumProducts(v1, v2)
             norm1sq     == SumProducts(v1, v1)
             norm2sq     == SumProducts(v2, v2)
         IN  IF norm1sq = 0 \/ norm2sq = 0 THEN Ok(ZeroScore)
             ELSE Ok(Score(dot_product, norm1sq * norm1sq))

\* the dot product divided by norm1 alone
cosine_similarity_norm2_missing(v1, v2) ==
    IF Len(v1) # Len(v2) THEN DimensionError(v1, v2)
    ELSE LET dot_product == SumProducts(v1, v2)
             norm1sq     == SumProducts(v1, v1)
             norm2sq     == SumProducts(v2, v2)
         IN  IF norm1sq = 0 \/ norm2sq = 0 THEN Ok(ZeroScore)
             ELSE Ok(Score(dot_product, norm1sq))

\* norm1 taken as the sum of squares, without the square root
cosine_similarity_norm1_squared(v1, v2) ==
    IF Len(v1) # Len(v2) THEN DimensionError(v1, v2)
    ELSE LET dot_product == SumProducts(v1, v2)
             norm1sq     == SumProducts(v1, v1)
             norm2sq     == SumProducts(v2, v2)
         IN  IF norm1sq = 0 \/ norm2sq = 0 THEN Ok(ZeroScore)
             ELSE Ok(Score(dot_product, (norm1sq * norm1sq) * norm2sq))

cosine_similarity(v1, v2) ==
    IF Len(v1) # Len(v2) THEN DimensionError(v1, v2)
    ELSE LET dot_product == SumProducts(v1, v2)
             norm1sq     == SumProducts(v1, v1)     \* norm1 ** 2
             norm2sq     == SumProducts(v2, v2)     \* norm2 ** 2
         IN  IF norm1sq = 0 \/ norm2sq = 0 THEN Ok(ZeroScore)
             ELSE Ok(Score(dot_product, norm1sq * norm2sq))

\* ------------------------------------------------ specification SpecCosine
\* the largest factor a vector is scaled by
MaxScale == 3

Scale(k, v) == [i \in DOMAIN v |-> k * v[i]]

InitCosine ==
    /\ vec1 \in Vectors
    /\ vec2 \in Vectors
    /\ scale \in 1..MaxScale
    /\ cos_ret = None
    /\ scaled_ret = None
    /\ ServerLoaded
    /\ NoObjects
    /\ NoThreads
    /\ SemanticApp

CosineSimilarity ==
    /\ ~Returned(cos_ret)
    /\ cos_ret' = cosine_similarity(vec1, vec2)
    /\ UNCHANGED <<vec1, vec2, scale, scaled_ret>>
    /\ UNCHANGED outsideCosine

\* the same call with the first vector multiplied by the factor
CosineSimilarityScaled ==
    /\ ~Returned(scaled_ret)
    /\ scaled_ret' = cosine_similarity(Scale(scale, vec1), vec2)
    /\ UNCHANGED <<vec1, vec2, scale, cos_ret>>
    /\ UNCHANGED outsideCosine

NextCosine == CosineSimilarity \/ CosineSimilarityScaled

SpecCosine == InitCosine /\ [][NextCosine]_vars

IsZeroVector(v) == \A i \in DOMAIN v : v[i] = 0

\* C7: vectors of unequal length give a ValueError that names both lengths
\* and no score, also when one of them is empty or the zero vector.
C7_DimensionMismatch ==
    (Returned(cos_ret) /\ Len(vec1) # Len(vec2)) =>
        /\ cos_ret.kind = "ValueError"
        /\ cos_ret.message[2] = Len(vec1)
        /\ cos_ret.message[4] = Len(vec2)
        /\ "value" \notin DOMAIN cos_ret

C7_Witness ==
    /\ Returned(cos_ret)
    /\ Len(vec1) # Len(vec2)
    /\ IsZeroVector(vec1)
    /\ cos_ret.kind = "ValueError"

\* C8: equal-length vectors one of which is the zero vector score exactly 0.0
C8_ZeroVector ==
    (Returned(cos_ret) /\ Len(vec1) = Len(vec2)
        /\ (IsZeroVector(vec1) \/ IsZeroVector(vec2))) =>
        /\ cos_ret.kind = "ok"
        /\ cos_ret.value = ZeroScore

C8_Witness ==
    /\ Returned(cos_ret)
    /\ Len(vec1) = Len(vec2) /\ Len(vec1) > 0
    /\ ~IsZeroVector(vec1) /\ IsZeroVector(vec2)
    /\ cos_ret = Ok(ZeroScore)

\* C9: a non-zero vector compared with itself scores 1.0
C9_SelfSimilarity ==
    (Returned(cos_ret) /\ vec1 = vec2 /\ ~IsZeroVector(vec1)) =>
        /\ cos_ret.kind = "ok"
        /\ IsOne(cos_ret.value)

C9_Witness ==
    /\ Returned(cos_ret)
    /\ vec1 = vec2 /\ Len(vec1) = MaxDim /\ \A i \in DOMAIN vec1 : vec1[i] # 0
    /\ cos_ret.kind = "ok" /\ IsOne(cos_ret.value)

\* C10: for equal lengths the outcome for (a, b) is the outcome for (b, a)
C10_Symmetric ==
    (Returned(cos_ret) /\ Len(vec1) = Len(vec2)) =>
        cos_ret = cosine_similarity(vec2, vec1)

C10_Witness ==
    /\ Returned(cos_ret)
    /\ Len(vec1) = Len(vec2) /\ vec1 # vec2
    /\ ~IsZeroVector(vec1) /\ ~IsZeroVector(vec2)
    /\ cos_ret.kind = "ok" /\ cos_ret.value.num # 0

C12_ScaleInvariant ==
    (Returned(cos_ret) /\ Returned(scaled_ret)) =>
        /\ scaled_ret.kind = cos_ret.kind
        /\ cos_ret.kind = "ok" => ScoreEq(scaled_ret.value, cos_ret.value)

\* both calls returned a score other than 0 and the factor is not 1
C12_Witness ==
    /\ Returned(cos_ret) /\ Returned(scaled_ret)
    /\ scale > 1
    /\ cos_ret.kind = "ok" /\ scaled_ret.kind = "ok"
    /\ cos_ret.value.num # 0
    /\ scaled_ret.value # cos_ret.value
    /\ ScoreEq(scaled_ret.value, cos_ret.value)

\* ======================================================== texts and queries
MaxTextLen == 2      \* longest topic

Chars == {" ", "a"}

Texts == UNION {[1..n -> Chars] : n \in 0..MaxTextLen}

RECURSIVE StripLeft(_)
StripLeft(t) ==
    IF t # <<>> /\ Head(t) = " " THEN StripLeft(Tail(t)) ELSE t

RECURSIVE StripRight(_)
StripRight(t) ==
    IF t # <<>> /\ t[Len(t)] = " " THEN StripRight(SubSeq(t, 1, Len(t) - 1)) ELSE t

\* str.strip()
Strip(t) == StripRight(StripLeft(t))

\* not t or not t.strip()
IsBlank(t) == t = <<>> \/ Strip(t) = <<>>

\* ====================================================== the quotes data set
NumQuotes == 24      \* len(QUOTES_DATA)

Category(i) ==
    IF i <= 5 THEN "Importance of Education"
    ELSE IF i <= 9 THEN "Being Kind to Others"
    ELSE IF i <= 14 THEN "Contributing to Others"
    ELSE IF i <= 19 THEN "Hard Work"
    ELSE "Overcoming Failure"

\* quote i of the data set; its text is identified by its number
QUOTES_DATA == [i \in 1..NumQuotes |-> [text |-> i, category |-> Category(i)]]

\* Document(page_content=quote["text"], metadata={"category": quote["category"]})
quotes_to_documents(quotes) ==
    [i \in DOMAIN quotes |->
        [page_content |-> quotes[i].text,
         metadata     |-> [category |-> quotes[i].category]]]

\* ============================================== the services of the platform
\* env.db: the vector-db service is bound and reachable
\* env.emb: the embedding service is bound and reachable
Envs == [db : BOOLEAN, emb : BOOLEAN]

Exception(msg, cause) == [kind |-> "Exception", message |-> msg, cause |-> cause]

PGVector == [kind |-> "PGVector"]

\* a store object that hands its rows back in insertion order
Unranked == [kind |-> "Unranked"]

initialize_store(env) ==
    IF ~env.db THEN ValueError("Database service not available")
    ELSE IF ~env.emb THEN ValueError("Embedding service not available")
    ELSE Ok(PGVector)

\* ------------------------------------------------- the distance of a row
One == 10            \* the float 1.0 in tenths

MaxGeometry == 1     \* number of query geometries tried, less one

\* cosine distance, in tenths, between the query and quote i under
\* geometry g of the embedding model: a value in 0 .. 2 * One
Distance(g, i) == (i * (g + 2) + g) % (2 * One + 1)

\* the Document stored in a row; a row is kept as the number of its quote
Document(row) ==
    [page_content |-> QUOTES_DATA[row].text,
     metadata     |-> [category |-> QUOTES_DATA[row].category]]

\* row and document are one to one: the row of a document of the data set
RowOf(doc) == doc.page_content

Scored(g, row) == [doc |-> Document(row), distance |-> Distance(g, row)]

RECURSIVE InsertByDistance(_, _)
InsertByDistance(s, x) ==
    IF s = <<>> THEN <<x>>
    ELSE IF x.distance < Head(s).distance THEN <<x>> \o s
    ELSE <<Head(s)>> \o InsertByDistance(Tail(s), x)

RECURSIVE OrderByDistance(_, _)
OrderByDistance(sorted, rest) ==
    IF rest = <<>> THEN sorted
    ELSE OrderByDistance(InsertByDistance(sorted, Head(rest)), Tail(rest))

Min(a, b) == IF a < b THEN a ELSE b

\* the collection as a query of geometry g meets it: its documents, the
\* documents with their distance, and the same by ascending distance
Collection(docs, g) ==
    LET scored == [i \in DOMAIN docs |-> Scored(g, docs[i])]
    IN  [docs |-> docs, scored |-> scored, ranked |-> OrderByDistance(<<>>, scored)]

\* vectorstore.similarity_search_with_score(query, k=k): at most k rows with
\* their distance; PGVector orders them by ascending distance (ORDER BY
\* distance LIMIT k), fails for a negative LIMIT and when a service is down.
\* The query is embedded first (embed_query): an embedding service that
\* gives no embedding ends it with the ValueError of embed_text; a failed
\* request ends it with RequestException, which every caller handles in
\* the same except clause.
similarity_search_with_score(vs, coll, k, env) ==
    IF ~env.emb THEN ValueError("Invalid response format from embedding API")
    ELSE IF ~env.db THEN [kind |-> "OperationalError"]
    ELSE IF k < 0 THEN [kind |-> "ProgrammingError"]
    ELSE LET rows == IF vs = PGVector THEN coll.ranked ELSE coll.scored
         IN  Ok(SubSeq(rows, 1, Min(k, Len(rows))))

\* vectorstore.similarity_search("", k=k): the documents without scores
similarity_search(coll, k, env) ==
    IF ~env.db \/ ~env.emb THEN [kind |-> "OperationalError"]
    ELSE Ok([i \in 1..Min(k, Len(coll.docs)) |-> Document(coll.docs[i])])

\* =================================================== search_similar_quotes
\* a return value with what the call did on the way:
\*   effects: the service calls made, in order;  raw: the rows the store gave
Result(outcome, effects, raw) == [outcome |-> outcome, effects |-> effects, raw |-> raw]

\* the distance handed on as the similarity
quote_dict_distance(row) ==
    [text       |-> row.doc.page_content,
     similarity |-> row.distance,
     category   |-> row.doc.metadata.category]

\* similarity = 1.0 - float(distance), with the text and the category
quote_dict(row) ==
    [text       |-> row.doc.page_content,
     similarity |-> One - row.distance,
     category   |-> row.doc.metadata.category]

to_similar_quotes(results) == [i \in DOMAIN results |-> quote_dict(results[i])]

\* without the early return the debug line reads similar_quotes[0] of an empty list
convert_results_no_guard(results) ==
    IF results = <<>> THEN [kind |-> "IndexError"]
    ELSE Ok(to_similar_quotes(results))

\* if not results: return []  ...  return similar_quotes
convert_results(results) ==
    IF results = <<>> THEN Ok(<<>>)
    ELSE Ok(to_similar_quotes(results))

\* the query checked only after the store handle has been set up
search_similar_quotes_unwrapped(query, vs, k, coll, env) ==
    IF IsBlank(query)
    THEN Result(ValueError("Query cannot be empty"), <<>>, <<>>)
    ELSE LET init == IF vs = None THEN initialize_store(env) ELSE Ok(vs)
             fx1  == IF vs = None THEN <<"initialize_store">> ELSE <<>>
         IN  IF init.kind # "ok"
             THEN Result(init, fx1, <<>>)
             ELSE LET results == similarity_search_with_score(init.value, coll, k, env)
                      fx2     == Append(fx1, "similarity_search_with_score")
                  IN  IF results.kind = "ValueError"
                      THEN Result(results, fx2, <<>>)
                      ELSE IF results.kind # "ok"
                      THEN Result(Exception("Could not perform similarity search", results.kind),
                                  fx2, <<>>)
                      ELSE LET similar_quotes == convert_results(results.value)
                           IN  IF similar_quotes.kind # "ok"
                               THEN Result(Exception("Could not perform similarity search",
                                                     similar_quotes.kind), fx2, results.value)
                               ELSE Result(similar_quotes, fx2, results.value)

search_similar_quotes_late_check(query, vs, k, coll, env) ==
    LET init == IF vs = None THEN initialize_store(env) ELSE Ok(vs)
        fx1  == IF vs = None THEN <<"initialize_store">> ELSE <<>>
    IN  IF init.kind # "ok"
        THEN Result(Exception("Could not perform similarity search", init.kind), fx1, <<>>)
        ELSE IF IsBlank(query)
        THEN Result(ValueError("Query cannot be empty"), fx1, <<>>)
        ELSE LET results == similarity_search_with_score(init.value, coll, k, env)
                 fx2     == Append(fx1, "similarity_search_with_score")
             IN  IF results.kind # "ok"
                 THEN Result(Exception("Could not perform similarity search", results.kind),
                             fx2, <<>>)
                 ELSE LET similar_quotes == convert_results(results.value)
                      IN  IF similar_quotes.kind # "ok"
                          THEN Result(Exception("Could not perform similarity search",
                                                similar_quotes.kind), fx2, results.value)
                          ELSE Result(similar_quotes, fx2, results.value)

search_similar_quotes(query, vs, k, coll, env) ==
    IF IsBlank(query)
    THEN Result(ValueError("Query cannot be empty"), <<>>, <<>>)
    ELSE LET init == IF vs = None THEN initialize_store(env) ELSE Ok(vs)
             fx1  == IF vs = None THEN <<"initialize_store">> ELSE <<>>
         IN  IF init.kind # "ok"
             THEN Result(Exception("Could not perform similarity search", init.kind), fx1, <<>>)
             ELSE LET results == similarity_search_with_score(init.value, coll, k, env)
                      fx2     == Append(fx1, "similarity_search_with_score")
                  IN  IF results.kind # "ok"
                      THEN Result(Exception("Could not perform similarity search", results.kind),
                                  fx2, <<>>)
                      ELSE LET similar_quotes == convert_results(results.value)
                           IN  IF similar_quotes.kind # "ok"
                               THEN Result(Exception("Could not perform similarity search",
                                                     similar_quotes.kind), fx2, results.value)
                               ELSE Result(similar_quotes, fx2, results.value)

\* ================================================== search_word_similarity
Words == {<<"a">>, <<"b">>}

\* what embed_query gives for a word: a vector, or a failed request
\* the vectors the embedding service answers with: aligned, orthogonal,
\* opposite, zero, and one of another dimension
EmbedVectors == {<<1, 0>>, <<0, 1>>, <<1, 1>>, <<0 - 1, 0>>, <<0, 0>>, <<1>>}

EmbedOutcomes == {Ok(v) : v \in EmbedVectors} \cup {[kind |-> "RequestException"]}

EmbedTables == [Words -> EmbedOutcomes]

MaxPairs == 2        \* longest word_pairs list

WordPairLists == UNION {[1..n -> Words \X Words] : n \in 0..MaxPairs}

CustomEmbeddings(env) ==
    IF env.emb THEN Ok([kind |-> "CustomEmbeddings"])
    ELSE ValueError("Embedding service not available")

placeholder(word1, word2, e) ==
    [word1 |-> word1, word2 |-> word2, similarity |-> ZeroScore, error |-> e]

\* the body of the loop over word_pairs, with its try/except
pair_similarity(word1, word2, embed) ==
    LET embedding1 == embed[word1]
        embedding2 == embed[word2]
    IN  IF embedding1.kind # "ok" THEN placeholder(word1, word2, embedding1.kind)
        ELSE IF embedding2.kind # "ok" THEN placeholder(word1, word2, embedding2.kind)
        ELSE LET similarity == cosine_similarity(embedding1.value, embedding2.value)
             IN  IF similarity.kind # "ok" THEN placeholder(word1, word2, similarity.kind)
                 ELSE [word1 |-> word1, word2 |-> word2, similarity |-> similarity.value]

RECURSIVE InsertDescending(_, _)
InsertDescending(s, x) ==
    IF s = <<>> THEN <<x>>
    ELSE IF ScoreLess(Head(s).similarity, x.similarity) THEN <<x>> \o s
    ELSE <<Head(s)>> \o InsertDescending(Tail(s), x)

RECURSIVE SortFrom(_, _)
SortFrom(sorted, rest) ==
    IF rest = <<>> THEN sorted
    ELSE SortFrom(InsertDescending(sorted, Head(rest)), Tail(rest))

\* the list left as it was built
sort_descending_missing(similarities) == similarities

Reverse(s) == [i \in DOMAIN s |-> s[Len(s) + 1 - i]]

\* an ascending stable sort read backwards: equal scores come out reversed
sort_descending_reversed_ties(similarities) == SortFrom(<<>>, Reverse(similarities))

\* similarities.sort(key=lambda x: x["similarity"], reverse=True): stable
sort_descending(similarities) == SortFrom(<<>>, similarities)

search_word_similarity(pairs, embed, env) ==
    LET client == CustomEmbeddings(env)
    IN  IF client.kind # "ok"
        THEN Result(Exception("Could not compute word similarity", client.kind),
                    <<"CustomEmbeddings">>, <<>>)
        ELSE LET similarities ==
                     [i \in DOMAIN pairs |-> pair_similarity(pairs[i][1], pairs[i][2], embed)]
             IN  Result(Ok(sort_descending(similarities)), <<"CustomEmbeddings">>, similarities)

\* ======================================================= the stage 4 tools
MaxK == 24           \* the cap of the search_quotes tool

limit_k_unlimited(k) == k

\* if k > 24: k = 24
limit_k(k) == IF k > MaxK THEN MaxK ELSE k

\* a tool's return value together with the global handle it leaves behind
ToolResult(r, handle) ==
    [outcome |-> r.outcome, effects |-> r.effects, raw |-> r.raw, handle |-> handle]

search_quotes(topic, k, vs, coll, env) ==
    IF IsBlank(topic)
    THEN ToolResult(Result(ValueError("Topic cannot be empty"), <<>>, <<>>), vs)
    ELSE IF k < 1
    THEN ToolResult(Result(ValueError("k must be at least 1"), <<>>, <<>>), vs)
    ELSE LET kk   == limit_k(k)
             init == IF vs = None THEN initialize_store(env) ELSE Ok(vs)
             fx1  == IF vs = None THEN <<"initialize_store">> ELSE <<>>
         IN  IF init.kind # "ok"
             THEN ToolResult(Result(Exception("Vector store not available", init.kind),
                                    fx1, <<>>), vs)
             ELSE LET r == search_similar_quotes(topic, init.value, kk, coll, env)
                  IN  IF r.outcome.kind = "ok"
                      THEN ToolResult(Result(r.outcome, fx1 \o r.effects, r.raw), init.value)
                      ELSE ToolResult(Result(Exception("Failed to search quotes", r.outcome.kind),
                                             fx1 \o r.effects, r.raw), init.value)

compare_words(word1, word2, emb, embed, env) ==
    IF IsBlank(word1)
    THEN ToolResult(Result(ValueError("word1 cannot be empty"), <<>>, <<>>), emb)
    ELSE IF IsBlank(word2)
    THEN ToolResult(Result(ValueError("word2 cannot be empty"), <<>>, <<>>), emb)
    ELSE LET init == IF emb = None THEN CustomEmbeddings(env) ELSE Ok(emb)
             fx1  == IF emb = None THEN <<"CustomEmbeddings">> ELSE <<>>
         IN  IF init.kind # "ok"
             THEN ToolResult(Result(Exception("Embedding service not available", init.kind),
                                    fx1, <<>>), emb)
             ELSE LET r == search_word_similarity(<<<<word1, word2>>>>, embed, env)
                  IN  IF r.outcome.kind # "ok"
                      THEN ToolResult(Result(Exception("Failed to compare words", r.outcome.kind),
                                             fx1 \o r.effects, r.raw), init.value)
                      ELSE IF r.outcome.value = <<>>
                      THEN ToolResult(Result(Exception("Failed to compare words", "ValueError"),
                                             fx1 \o r.effects, r.raw), init.value)
                      ELSE ToolResult(Result(Ok(r.outcome.value[1]), fx1 \o r.effects, r.raw),
                                      init.value)

\* ================================================== the stage 3 endpoints
HTTPException(status_code, detail) ==
    [kind |-> "HTTPException", status_code |-> status_code, detail |-> detail]

AllQuotesK == 24     \* k of GET /quotes and of similarity_search("", k=24)

\* GET /quotes?topic=...
search_quotes_endpoint(topic, vs, coll, env) ==
    LET init == IF vs = None THEN initialize_store(env) ELSE Ok(vs)
        fx1  == IF vs = None THEN <<"initialize_store">> ELSE <<>>
    IN  IF init.kind # "ok"
        THEN ToolResult(Result(HTTPException(503, "Vector store not available"), fx1, <<>>), vs)
        ELSE IF IsBlank(topic)
        THEN LET results == similarity_search(coll, AllQuotesK, env)
                 fx2     == Append(fx1, "similarity_search")
             IN  IF results.kind # "ok"
                 THEN ToolResult(Result(HTTPException(500, "Failed to retrieve quotes"),
                                        fx2, <<>>), init.value)
                 ELSE ToolResult(Result(Ok([i \in DOMAIN results.value |->
                                              [text     |-> results.value[i].page_content,
                                               category |-> results.value[i].metadata.category]]),
                                        fx2, results.value), init.value)
        ELSE LET r == search_similar_quotes(topic, init.value, AllQuotesK, coll, env)
             IN  IF r.outcome.kind = "ok"
                 THEN ToolResult(Result(r.outcome, fx1 \o r.effects, r.raw), init.value)
                 ELSE IF r.outcome.kind = "ValueError"
                 THEN ToolResult(Result(HTTPException(400, r.outcome.message),
                                        fx1 \o r.effects, r.raw), init.value)
                 ELSE ToolResult(Result(HTTPException(500, "Failed to search quotes"),
                                        fx1 \o r.effects, r.raw), init.value)

\* is_collection_empty: an error while checking counts as empty
is_collection_empty(docs, env) ==
    LET results == similarity_search([docs |-> docs], 1, env)
    IN  IF results.kind # "ok" THEN TRUE ELSE Len(results.value) = 0

\* vectorstore.add_documents(documents): embeds every document and inserts it
add_documents(docs, documents, env) ==
    IF ~env.db \/ ~env.emb THEN [kind |-> "OperationalError"]
    ELSE Ok(docs \o [i \in DOMAIN documents |-> RowOf(documents[i])])

\* initialize_quotes(vectorstore, force_reload) with a store handle given;
\* docs: the rows left in the collection; check: the services as the
\* emptiness check meets them, env: as add_documents meets them afterwards
initialize_quotes(docs, force_reload, check, env) ==
    LET is_empty == is_collection_empty(docs, check)
    IN  IF ~is_empty /\ ~force_reload
        THEN [outcome |-> Ok([status |-> "skipped", count |-> 0]), docs |-> docs]
        ELSE LET documents == quotes_to_documents(QUOTES_DATA)
                 added     == add_documents(docs, documents, env)
             IN  IF added.kind # "ok"
                 THEN [outcome |-> Exception("Could not initialize quotes", added.kind),
                       docs |-> docs]
                 ELSE [outcome |-> Ok([status |-> "success", count |-> Len(documents)]),
                       docs |-> added.value]

\* POST /quotes/init?force=...
init_quotes_endpoint(force, vs, docs, check, env) ==
    LET init == IF vs = None THEN initialize_store(env) ELSE Ok(vs)
    IN  IF init.kind # "ok"
        THEN [outcome |-> HTTPException(503, "Vector store not available"),
              handle |-> vs, docs |-> docs]
        ELSE LET result == initialize_quotes(docs, force, check, env)
             IN  IF result.outcome.kind # "ok"
                 THEN [outcome |-> HTTPException(500, "Failed to initialize quotes"),
                       handle |-> init.value, docs |-> result.docs]
                 ELSE [outcome |-> result.outcome, handle |-> init.value, docs |-> result.docs]

\* clean_store: DELETE FROM langchain_pg_collection WHERE name = ...
clean_store(docs, env) ==
    IF ~env.db THEN [kind |-> "Exception"] ELSE Ok(<<>>)

\* POST /quotes/clean
clean_quotes_endpoint(vs, docs, env) ==
    LET cleaned == clean_store(docs, env)
    IN  IF cleaned.kind # "ok"
        THEN [outcome |-> HTTPException(500, "Failed to clean database"),
              handle |-> vs, docs |-> docs]
        ELSE LET init == initialize_store(env)
             IN  IF init.kind # "ok"
                 THEN [outcome |-> HTTPException(500, "Failed to clean database"),
                       handle |-> vs, docs |-> cleaned.value]
                 ELSE [outcome |-> Ok([status |-> "success"]),
                       handle |-> init.value, docs |-> cleaned.value]

\* stage 4: the get_all_quotes tool
get_all_quotes(vs, coll, env) ==
    LET init == IF vs = None THEN initialize_store(env) ELSE Ok(vs)
    IN  IF init.kind # "ok"
        THEN [outcome |-> Exception("Vector store not available", init.kind), handle |-> vs]
        ELSE LET results == similarity_search(coll, AllQuotesK, env)
             IN  IF results.kind # "ok"
                 THEN [outcome |-> Exception("Failed to get all quotes", results.kind),
                       handle |-> init.value]
                 ELSE [outcome |-> Ok([i \in DOMAIN results.value |->
                                         [text     |-> results.value[i].page_content,
                                          category |-> results.value[i].metadata.category]]),
                       handle |-> init.value]

\* stage 4: the get_random_quote tool; pick: the result random.choice takes
get_random_quote_drops_handle(vs, coll, env, pick) ==
    LET init == IF vs = None THEN initialize_store(env) ELSE Ok(vs)
    IN  IF init.kind # "ok"
        THEN [outcome |-> Exception("Vector store not available", init.kind), handle |-> vs]
        ELSE LET results == similarity_search(coll, AllQuotesK, env)
             IN  IF results.kind # "ok"
                 THEN [outcome |-> Exception("Failed to get random quote", results.kind),
                       handle |-> None]
                 ELSE IF results.value = <<>>
                 THEN [outcome |-> Exception("Failed to get random quote", "ValueError"),
                       handle |-> init.value]
                 ELSE [outcome |-> Ok([text     |-> results.value[pick].page_content,
                                       category |-> results.value[pick].metadata.category]),
                       handle |-> init.value]

get_random_quote(vs, coll, env, pick) ==
    LET init == IF vs = None THEN initialize_store(env) ELSE Ok(vs)
    IN  IF init.kind # "ok"
        THEN [outcome |-> Exception("Vector store not available", init.kind), handle |-> vs]
        ELSE LET results == similarity_search(coll, AllQuotesK, env)
             IN  IF results.kind # "ok"
                 THEN [outcome |-> Exception("Failed to get random quote", results.kind),
                       handle |-> init.value]
                 ELSE IF results.value = <<>>
                 THEN [outcome |-> Exception("Failed to get random quote", "ValueError"),
                       handle |-> init.value]
                 ELSE [outcome |-> Ok([text     |-> results.value[pick].page_content,
                                       category |-> results.value[pick].metadata.category]),
                       handle |-> init.value]

\* ====================================================== specification Spec
MaxLoads == 2        \* the collection holds at most MaxLoads copies of the data set
MaxSmallK   == 2     \* a caller passes k in -1 .. MaxSmallK
MaxOverCap  == 2     \* or k in 24 - MaxOverCap .. 24 + MaxOverCap

KInputs == ((0 - 1)..MaxSmallK) \cup ((MaxK - MaxOverCap)..(MaxK + MaxOverCap))

Geometries == 0..MaxGeometry

WordInputs == Words \cup {<<>>, <<" ">>}

StoreArgs == {None, PGVector, Unranked}

Idle == response = None

Init ==
    /\ NoCosineCall
    /\ ServerLoaded
    /\ NoObjects
    /\ NoThreads
    /\ SemanticApp

\* stage 3: POST /quotes/init
InitQuotes ==
    /\ app = "semantic" /\ Idle
    /\ Len(store) + NumQuotes <= MaxLoads * NumQuotes
    /\ \E force \in BOOLEAN, check \in Envs, env \in Envs :
         LET r == init_quotes_endpoint(force, vectorstore3, store, check, env)
         IN  /\ store' = r.docs
             /\ vectorstore3' = r.handle
             /\ response' = [op |-> "init_quotes_endpoint", force |-> force,
                             check |-> check, env |-> env, outcome |-> r.outcome]
    /\ UNCHANGED <<vectorstore, embeddings, embeddings3>>
    /\ UNCHANGED outsideServer

\* stage 3: POST /quotes/clean
CleanQuotes ==
    /\ app = "semantic" /\ Idle
    /\ \E env \in Envs :
         LET r == clean_quotes_endpoint(vectorstore3, store, env)
         IN  /\ store' = r.docs
             /\ vectorstore3' = r.handle
             /\ response' = [op |-> "clean_quotes_endpoint", env |-> env, outcome |-> r.outcome]
    /\ UNCHANGED <<vectorstore, embeddings, embeddings3>>
    /\ UNCHANGED outsideServer

\* stage 3: GET /quotes
SearchQuotesEndpoint ==
    /\ app = "semantic" /\ Idle
    /\ \E g \in Geometries :
         LET coll == Collection(store, g)
         IN  \E topic \in Texts, env \in Envs :
         LET r == search_quotes_endpoint(topic, vectorstore3, coll, env)
         IN  /\ vectorstore3' = r.handle
             /\ response' = [op |-> "search_quotes_endpoint", topic |-> topic,
                             k |-> AllQuotesK, vs |-> r.handle, g |-> g, env |-> env,
                             outcome |-> r.outcome, effects |-> r.effects, raw |-> r.raw]
    /\ UNCHANGED <<store, vectorstore, embeddings, embeddings3>>
    /\ UNCHANGED outsideServer

\* stage 4: the search_quotes tool
SearchQuotes ==
    /\ Idle
    /\ \E g \in Geometries :
         LET coll == Collection(store, g)
         IN  \E topic \in Texts, k \in KInputs, env \in Envs :
         LET r == search_quotes(topic, k, vectorstore, coll, env)
         IN  /\ vectorstore' = r.handle
             /\ response' = [op |-> "search_quotes", topic |-> topic, k |-> k,
                             vs |-> r.handle, g |-> g, env |-> env,
                             outcome |-> r.outcome, effects |-> r.effects, raw |-> r.raw]
    /\ UNCHANGED <<store, embeddings, vectorstore3, embeddings3>>
    /\ UNCHANGED outsideServer

\* a caller of similarity.py: search_similar_quotes(query, vectorstore, k)
SearchSimilarQuotes ==
    /\ Idle
    /\ \E g \in Geometries :
         LET coll == Collection(store, g)
         IN  \E query \in Texts, vs \in StoreArgs, k \in KInputs, env \in Envs :
         LET r == search_similar_quotes(query, vs, k, coll, env)
         IN  response' = [op |-> "search_similar_quotes", topic |-> query, k |-> k,
                          vs |-> vs, g |-> g, env |-> env,
                          outcome |-> r.outcome, effects |-> r.effects, raw |-> r.raw]
    /\ UNCHANGED <<store, vectorstore, embeddings, vectorstore3, embeddings3>>
    /\ UNCHANGED outsideServer

\* a caller of similarity.py: search_word_similarity(word_pairs)
SearchWordSimilarity ==
    /\ Idle
    /\ \E pairs \in WordPairLists, embed \in EmbedTables, env \in Envs :
         LET r == search_word_similarity(pairs, embed, env)
         IN  response' = [op |-> "search_word_similarity", word_pairs |-> pairs,
                          outcome |-> r.outcome, effects |-> r.effects, raw |-> r.raw]
    /\ UNCHANGED <<store, vectorstore, embeddings, vectorstore3, embeddings3>>
    /\ UNCHANGED outsideServer

\* stage 4: the compare_words tool
CompareWords ==
    /\ Idle
    /\ \E word1 \in WordInputs, word2 \in WordInputs, embed \in EmbedTables, env \in Envs :
         LET r == compare_words(word1, word2, embeddings, embed, env)
         IN  /\ embeddings' = r.handle
             /\ response' = [op |-> "compare_words", word_pairs |-> <<<<word1, word2>>>>,
                             env |-> env, outcome |-> r.outcome, effects |-> r.effects, raw |-> r.raw]
    /\ UNCHANGED <<store, vectorstore, vectorstore3, embeddings3>>
    /\ UNCHANGED outsideServer

\* stage 4: the get_all_quotes tool
GetAllQuotesTool ==
    /\ app = "semantic" /\ Idle
    /\ \E env \in Envs :
         LET r == get_all_quotes(vectorstore, Collection(store, 0), env)
         IN  /\ vectorstore' = r.handle
             /\ response' = [op |-> "get_all_quotes", env |-> env, outcome |-> r.outcome]
    /\ UNCHANGED <<store, embeddings, vectorstore3, embeddings3>>
    /\ UNCHANGED outsideServer

\* stage 4: the get_random_quote tool
GetRandomQuoteTool ==
    /\ app = "semantic" /\ Idle
    /\ \E env \in Envs, pick \in 1..AllQuotesK :
         LET r == get_random_quote(vectorstore, Collection(store, 0), env, pick)
         IN  /\ vectorstore' = r.handle
             /\ response' = [op |-> "get_random_quote", env |-> env, outcome |-> r.outcome]
    /\ UNCHANGED <<store, embeddings, vectorstore3, embeddings3>>
    /\ UNCHANGED outsideServer

\* the response reaches the caller; the server takes the next request
Deliver ==
    /\ ~Idle
    /\ response' = None
    /\ UNCHANGED <<store, vectorstore, embeddings, vectorstore3, embeddings3>>
    /\ UNCHANGED outsideServer

Next ==
    \/ InitQuotes
    \/ CleanQuotes
    \/ SearchQuotesEndpoint
    \/ SearchQuotes
    \/ SearchSimilarQuotes
    \/ SearchWordSimilarity
    \/ CompareWords
    \/ Deliver

Spec == Init /\ [][Next]_vars

\* ============================================== specification SpecHandles
\* one process of stage 3 and one of stage 4 that started without their
\* handles: the requests that read or set a handle
NextHandles ==
    \/ InitQuotes
    \/ CleanQuotes
    \/ SearchQuotesEndpoint
    \/ SearchQuotes
    \/ CompareWords
    \/ GetAllQuotesTool
    \/ GetRandomQuoteTool
    \/ Deliver

SpecHandles == Init /\ [][NextHandles]_vars

TypeOK ==
    /\ vectorstore \in {None, PGVector}
    /\ vectorstore3 \in {None, PGVector}
    /\ Len(store) <= MaxLoads * NumQuotes

\* ================================================= stage 2: the quotes table
\* quotes_db.exists: CREATE TABLE IF NOT EXISTS quotes has run
\* quotes_db.rows:   the rows (id, text, category, created_at), by id
\* quotes_db.seq:    the last value of the SERIAL sequence of id
\* Every database function opens its own connection, so each can fail on
\* its own (ok = FALSE); a statement on a missing table fails as well.
DbError == [kind |-> "OperationalError"]

initialize_quotes_table(db, ok) ==
    IF ~ok THEN DbError ELSE Ok([db EXCEPT !.exists = TRUE])

get_quotes_count(db, ok) ==
    IF ~ok \/ ~db.exists THEN DbError ELSE Ok(Len(db.rows))

\* INSERT INTO quotes (text, category) VALUES (..) RETURNING id
insert_quote(db, text, category, ok) ==
    IF ~ok \/ ~db.exists THEN DbError
    ELSE Ok([db EXCEPT !.rows = Append(@, [id |-> db.seq + 1, text |-> text,
                                          category |-> category,
                                          created_at |-> db.seq + 1]),
                       !.seq = @ + 1])

\* the DELETE without its effect: the rows are still there
clean_quotes_table_keeps_rows(db, ok) ==
    IF ~ok \/ ~db.exists THEN DbError ELSE Ok(db)

\* DELETE FROM quotes: the rows go, the table and the sequence stay
clean_quotes_table(db, ok) ==
    IF ~ok \/ ~db.exists THEN DbError ELSE Ok([db EXCEPT !.rows = <<>>])

\* SELECT .. FROM quotes ORDER BY RANDOM() LIMIT 1: the row picked, or None
db_get_random_quote(db, ok, pick) ==
    IF ~ok \/ ~db.exists THEN DbError
    ELSE IF db.rows = <<>> THEN Ok(None)
    ELSE Ok(db.rows[pick])

\* SELECT .. FROM quotes ORDER BY id
db_get_all_quotes(db, ok) ==
    IF ~ok \/ ~db.exists THEN DbError ELSE Ok(db.rows)

\* the inserts that fail during one load: none, all, the second half, the first
InsertFailures ==
    {{}, 1..NumQuotes, ((NumQuotes \div 2) + 1)..NumQuotes, {1}}

LoadEnvs == [table : BOOLEAN, count : BOOLEAN, failed : InsertFailures]

\* for quote in QUOTES_DATA: try: insert_quote(..); loaded_count += 1
\* except Exception: (logged, next quote)
RECURSIVE insert_quotes(_, _, _, _)
insert_quotes(db, i, failed, loaded_count) ==
    IF i > Len(QUOTES_DATA) THEN [db |-> db, loaded_count |-> loaded_count]
    ELSE LET inserted == insert_quote(db, QUOTES_DATA[i].text, QUOTES_DATA[i].category,
                                      i \notin failed)
         IN  IF inserted.kind # "ok" THEN insert_quotes(db, i + 1, failed, loaded_count)
             ELSE insert_quotes(inserted.value, i + 1, failed, loaded_count + 1)

\* load_quotes_to_db(service_name, force)
load_quotes_to_db(db, force, env) ==
    LET made == initialize_quotes_table(db, env.table)
    IN  IF made.kind # "ok" THEN [outcome |-> made, db |-> db]
        ELSE LET existing_count ==
                     IF force THEN Ok(0) ELSE get_quotes_count(made.value, env.count)
             IN  IF existing_count.kind # "ok"
                 THEN [outcome |-> existing_count, db |-> made.value]
                 ELSE IF ~force /\ existing_count.value > 0
                 THEN [outcome |-> Ok(existing_count.value), db |-> made.value]
                 ELSE LET loaded == insert_quotes(made.value, 1, env.failed, 0)
                      IN  [outcome |-> Ok(loaded.loaded_count), db |-> loaded.db]

\* stage 2: POST /quotes/init?force=...
postgres_init_quotes_endpoint(db, force, env) ==
    LET r == load_quotes_to_db(db, force, env)
    IN  IF r.outcome.kind # "ok"
        THEN [outcome |-> HTTPException(500, "Failed to initialize quotes"), db |-> r.db]
        ELSE [outcome |-> Ok([status |-> "success", count |-> r.outcome.value]), db |-> r.db]

\* stage 2: POST /quotes/clean
postgres_clean_quotes_endpoint(db, ok) ==
    LET r == clean_quotes_table(db, ok)
    IN  IF r.kind # "ok"
        THEN [outcome |-> HTTPException(500, "Failed to clean database"), db |-> db]
        ELSE [outcome |-> Ok([status |-> "success"]), db |-> r.value]

\* the text and the category of the row, or None
get_random_quote_from_db(db, ok, pick) ==
    LET db_quote == db_get_random_quote(db, ok, pick)
    IN  IF db_quote.kind # "ok" THEN db_quote
        ELSE IF db_quote.value = None THEN Ok(None)
        ELSE Ok([text |-> db_quote.value.text, category |-> db_quote.value.category])

get_all_quotes_from_db(db, ok) ==
    LET db_quotes == db_get_all_quotes(db, ok)
    IN  IF db_quotes.kind # "ok" THEN db_quotes
        ELSE Ok([i \in DOMAIN db_quotes.value |->
                    [text |-> db_quotes.value[i].text,
                     category |-> db_quotes.value[i].category]])

\* the 404 caught by "except Exception" like every other error
get_random_quote_endpoint_no_reraise(db, ok, pick) ==
    LET quote == get_random_quote_from_db(db, ok, pick)
    IN  IF quote.kind # "ok" \/ quote.value = None
        THEN HTTPException(500, "Failed to retrieve random quote")
        ELSE quote

\* stage 2: GET /quote; the 404 raised inside the try is re-raised by
\* "except HTTPException: raise"
get_random_quote_endpoint(db, ok, pick) ==
    LET quote == get_random_quote_from_db(db, ok, pick)
    IN  IF quote.kind # "ok" THEN HTTPException(500, "Failed to retrieve random quote")
        ELSE IF quote.value = None THEN HTTPException(404, "No quotes found in database")
        ELSE quote

\* stage 2: GET /quotes
get_all_quotes_endpoint(db, ok) ==
    LET quotes == get_all_quotes_from_db(db, ok)
    IN  IF quotes.kind # "ok" THEN HTTPException(500, "Failed to retrieve quotes")
        ELSE quotes

\* ============================================== stages 3 and 4: the start
\* lifespan / initialize_services: the embedding client, the store handle,
\* then initialize_quotes; an exception ends the start and is swallowed
\* the body of the try: each handle is assigned when its step has returned,
\* and the first exception (raised) ends the steps. env: the services as
\* the first two steps meet them; check and load: as the emptiness check
\* and the add_documents of initialize_quotes meet them afterwards
startup_steps(docs, check, load, env) ==
    LET client == CustomEmbeddings(env)
    IN  IF client.kind # "ok"
        THEN [embeddings |-> None, vectorstore |-> None, docs |-> docs,
              quotes |-> None, raised |-> client]
        ELSE LET init == initialize_store(env)
             IN  IF init.kind # "ok"
                 THEN [embeddings |-> client.value, vectorstore |-> None, docs |-> docs,
                       quotes |-> None, raised |-> init]
                 ELSE LET result == initialize_quotes(docs, FALSE, check, load)
                      IN  [embeddings |-> client.value, vectorstore |-> init.value,
                           docs |-> result.docs, quotes |-> result.outcome,
                           raised |-> IF result.outcome.kind # "ok"
                                      THEN result.outcome ELSE None]

startup_reraise(docs, check, load, env) ==
    LET steps == startup_steps(docs, check, load, env)
    IN  [embeddings |-> steps.embeddings, vectorstore |-> steps.vectorstore,
         docs |-> steps.docs, quotes |-> steps.quotes,
         outcome |-> IF steps.raised # None THEN steps.raised ELSE Ok(None)]

\* except Exception: the exception is logged and not raised again
startup(docs, check, load, env) ==
    LET steps == startup_steps(docs, check, load, env)
    IN  [embeddings |-> steps.embeddings, vectorstore |-> steps.vectorstore,
         docs |-> steps.docs, quotes |-> steps.quotes, outcome |-> Ok(None)]

\* ================================================ specification SpecStore
\* the operations that fill, empty and list the store of one deployed
\* application: the quotes table of stage 2, or the collection that stages
\* 3 and 4 share
InitStore ==
    /\ app \in {"postgres", "semantic"}
    /\ quotes_db = NewDb
    /\ ServerLoaded
    /\ NoCosineCall
    /\ NoObjects
    /\ NoThreads

PostgresFrame == UNCHANGED <<app, store, vectorstore, embeddings, vectorstore3, embeddings3,
                             cosVars, heapVars, threads>>

\* stage 2: the application starts
PostgresLifespan ==
    /\ app = "postgres" /\ Idle
    /\ \E ok \in BOOLEAN :
         LET made == initialize_quotes_table(quotes_db, ok)
         IN  /\ quotes_db' = IF made.kind = "ok" THEN made.value ELSE quotes_db
             /\ response' = [op |-> "postgres_lifespan", ok |-> ok, outcome |-> Ok(None)]
    /\ PostgresFrame

PostgresInitQuotes ==
    /\ app = "postgres" /\ Idle
    /\ quotes_db.seq + NumQuotes <= MaxLoads * NumQuotes
    /\ \E force \in BOOLEAN, env \in LoadEnvs :
         LET r == postgres_init_quotes_endpoint(quotes_db, force, env)
         IN  /\ quotes_db' = r.db
             /\ response' = [op |-> "postgres_init_quotes_endpoint", force |-> force,
                             env |-> env, outcome |-> r.outcome]
    /\ PostgresFrame

PostgresCleanQuotes ==
    /\ app = "postgres" /\ Idle
    /\ \E ok \in BOOLEAN :
         LET r == postgres_clean_quotes_endpoint(quotes_db, ok)
         IN  /\ quotes_db' = r.db
             /\ response' = [op |-> "postgres_clean_quotes_endpoint", ok |-> ok,
                             outcome |-> r.outcome]
    /\ PostgresFrame

\* the rows RANDOM() can put first (any of them; row 1 stands in when there is none)
Picks(db) == IF db.rows = <<>> THEN {1} ELSE DOMAIN db.rows

GetRandomQuote ==
    /\ app = "postgres" /\ Idle
    /\ \E ok \in BOOLEAN, pick \in Picks(quotes_db) :
         response' = [op |-> "get_random_quote_endpoint", ok |-> ok,
                      outcome |-> get_random_quote_endpoint(quotes_db, ok, pick)]
    /\ UNCHANGED quotes_db
    /\ PostgresFrame

GetAllQuotes ==
    /\ app = "postgres" /\ Idle
    /\ \E ok \in BOOLEAN :
         response' = [op |-> "get_all_quotes_endpoint", ok |-> ok,
                      outcome |-> get_all_quotes_endpoint(quotes_db, ok)]
    /\ UNCHANGED quotes_db
    /\ PostgresFrame

\* stage 3 starts: the globals of the new process are set by lifespan
Lifespan ==
    /\ app = "semantic" /\ Idle
    /\ Len(store) + NumQuotes <= MaxLoads * NumQuotes
    /\ \E check \in Envs, load \in Envs, env \in Envs :
         LET r == startup(store, check, load, env)
         IN  /\ store' = r.docs
             /\ vectorstore3' = r.vectorstore
             /\ embeddings3' = r.embeddings
             /\ response' = [op |-> "lifespan", check |-> check, load |-> load, env |-> env,
                             outcome |-> r.outcome, quotes |-> r.quotes]
    /\ UNCHANGED <<vectorstore, embeddings>>
    /\ UNCHANGED outsideServer

\* stage 4 starts: initialize_services
InitializeServices ==
    /\ app = "semantic" /\ Idle
    /\ Len(store) + NumQuotes <= MaxLoads * NumQuotes
    /\ \E check \in Envs, load \in Envs, env \in Envs :
         LET r == startup(store, check, load, env)
         IN  /\ store' = r.docs
             /\ vectorstore' = r.vectorstore
             /\ embeddings' = r.embeddings
             /\ response' = [op |-> "initialize_services", check |-> check, load |-> load,
                             env |-> env,
                             outcome |-> r.outcome, quotes |-> r.quotes]
    /\ UNCHANGED <<vectorstore3, embeddings3>>
    /\ UNCHANGED outsideServer

\* GET /health (the same code in stage 3 and stage 4). bound.emb: the
\* embedding service is found among the bound services; bound.db: the
\* database service is found and yields a connection URI. vs and emb are
\* the two global handles. Every check writes its entry of services, and
\* a failed check sets the status to unhealthy.
service_check(ok) == IF ok THEN "ok" ELSE "error"

handle_check(handle) == IF handle = None THEN "not initialized" ELSE "initialized"

health_check_embeddings_unchecked(bound, vs, emb) ==
    LET healthy == bound.emb /\ bound.db /\ vs # None
    IN  [status_code |-> IF healthy THEN 200 ELSE 503,
         content |-> [status |-> IF healthy THEN "healthy" ELSE "unhealthy",
                      services |-> [embedding   |-> service_check(bound.emb),
                                    database    |-> service_check(bound.db),
                                    vectorstore |-> handle_check(vs),
                                    embeddings  |-> handle_check(emb)]]]

health_check(bound, vs, emb) ==
    LET services == [embedding   |-> service_check(bound.emb),
                     database    |-> service_check(bound.db),
                     vectorstore |-> handle_check(vs),
                     embeddings  |-> handle_check(emb)]
        status == IF \/ services.embedding # "ok"
                     \/ services.database # "ok"
                     \/ vs = None
                     \/ emb = None
                  THEN "unhealthy" ELSE "healthy"
    IN  [status_code |-> IF status = "healthy" THEN 200 ELSE 503,
         content |-> [status |-> status, services |-> services]]

\* stage 3: GET /health
HealthCheckEndpoint ==
    /\ app = "semantic" /\ Idle
    /\ \E bound \in Envs :
         response' = [op |-> "health_check", stage |-> 3, env |-> bound,
                      vs |-> vectorstore3, emb |-> embeddings3,
                      outcome |-> Ok(health_check(bound, vectorstore3, embeddings3))]
    /\ UNCHANGED <<store, vectorstore, embeddings, vectorstore3, embeddings3>>
    /\ UNCHANGED outsideServer

\* stage 4: GET /health
HealthCheckRoute ==
    /\ app = "semantic" /\ Idle
    /\ \E bound \in Envs :
         response' = [op |-> "health_check", stage |-> 4, env |-> bound,
                      vs |-> vectorstore, emb |-> embeddings,
                      outcome |-> Ok(health_check(bound, vectorstore, embeddings))]
    /\ UNCHANGED <<store, vectorstore, embeddings, vectorstore3, embeddings3>>
    /\ UNCHANGED outsideServer

NextStore ==
    \/ PostgresLifespan
    \/ PostgresInitQuotes
    \/ PostgresCleanQuotes
    \/ GetRandomQuote
    \/ GetAllQuotes
    \/ Lifespan
    \/ InitializeServices
    \/ InitQuotes
    \/ CleanQuotes
    \/ SearchQuotesEndpoint
    \/ GetAllQuotesTool
    \/ HealthCheckEndpoint
    \/ HealthCheckRoute
    \/ Deliver

SpecStore == InitStore /\ [][NextStore]_vars

\* ===================================================== lists as objects
\* Python passes lists by reference.  An object is a slot of the heap; a
\* call gets the slot numbers of its arguments and gives back the slot
\* number of the list it returns.
MaxObjects == 3      \* the heap holds at most this many list objects
MaxRows == 2         \* longest result list the store hands over

ListObject(type, items) == [type |-> type, items |-> items]

Ref(id) == [ref |-> id]

IsRef(v) == "ref" \in DOMAIN v

\* the list a store hands over: rows with their distance
StoreResultLists ==
    {[i \in 1..n |-> Scored(g, i)] : n \in 0..MaxRows, g \in Geometries}

\* the entries written into the caller's list, which is sorted and returned
heap_search_word_similarity_in_place(h, word_pairs, embed, env) ==
    LET r == search_word_similarity(h[word_pairs].items, embed, env)
    IN  IF r.outcome.kind # "ok" THEN [heap |-> h, ret |-> r.outcome]
        ELSE [heap |-> [h EXCEPT ![word_pairs] = ListObject("similarities", r.outcome.value)],
              ret  |-> Ok(Ref(word_pairs))]

\* similarities = []; for word1, word2 in word_pairs: similarities.append(..);
\* similarities.sort(..); return similarities
heap_search_word_similarity(h, word_pairs, embed, env) ==
    LET r == search_word_similarity(h[word_pairs].items, embed, env)
    IN  IF r.outcome.kind # "ok" THEN [heap |-> h, ret |-> r.outcome]
        ELSE LET similarities == Len(h) + 1
             IN  [heap |-> Append(h, ListObject("similarities", r.outcome.value)),
                  ret  |-> Ok(Ref(similarities))]

\* results = vectorstore.similarity_search_with_score(..): the object the
\* store hands over; if not results: return []; similar_quotes = [];
\* for doc, distance in results: similar_quotes.append(..); return similar_quotes
heap_search_similar_quotes(h, query, results, env) ==
    IF IsBlank(query) THEN [heap |-> h, ret |-> ValueError("Query cannot be empty")]
    ELSE IF ~env.db \/ ~env.emb
    THEN [heap |-> h,
          ret  |-> Exception("Could not perform similarity search", "OperationalError")]
    ELSE LET similar_quotes == Len(h) + 1
         IN  [heap |-> Append(h, ListObject("similar_quotes",
                                            convert_results(h[results].items).value)),
              ret  |-> Ok(Ref(similar_quotes))]

\* _cosine_similarity reads both lists and returns a float
heap_cosine_similarity(h, v1, v2) ==
    [heap |-> h, ret |-> cosine_similarity(h[v1].items, h[v2].items)]

\* a caller that holds one word_pairs list, or one result list of a store,
\* or two vectors
InitHeap ==
    /\ \/ \E pairs \in WordPairLists, embed \in EmbedTables :
            /\ heap = <<ListObject("word_pairs", pairs)>>
            /\ embed_table = embed
       \/ \E rows \in StoreResultLists :
            /\ heap = <<ListObject("results", rows)>>
            /\ embed_table = None
       \/ \E v1 \in EmbedVectors, v2 \in EmbedVectors :
            /\ heap = <<ListObject("vector", v1), ListObject("vector", v2)>>
            /\ embed_table = None
    /\ heap_ret = None
    /\ NoCosineCall
    /\ ServerLoaded
    /\ NoThreads
    /\ SemanticApp

HeapSearchWordSimilarity ==
    /\ Len(heap) < MaxObjects
    /\ heap[1].type = "word_pairs"
    /\ \E env \in Envs :
         LET r == heap_search_word_similarity(heap, 1, embed_table, env)
         IN  /\ heap' = r.heap
             /\ heap_ret' = r.ret
    /\ UNCHANGED embed_table
    /\ UNCHANGED <<cosVars, serverVars, threads, postgresVars>>

HeapSearchSimilarQuotes ==
    /\ Len(heap) < MaxObjects
    /\ heap[1].type = "results"
    /\ \E query \in Texts, env \in Envs :
         LET r == heap_search_similar_quotes(heap, query, 1, env)
         IN  /\ heap' = r.heap
             /\ heap_ret' = r.ret
    /\ UNCHANGED embed_table
    /\ UNCHANGED <<cosVars, serverVars, threads, postgresVars>>

HeapCosineSimilarity ==
    /\ heap[1].type = "vector"
    /\ \E v1 \in 1..2, v2 \in 1..2 :
         LET r == heap_cosine_similarity(heap, v1, v2)
         IN  /\ heap' = r.heap
             /\ heap_ret' = r.ret
    /\ UNCHANGED embed_table
    /\ UNCHANGED <<cosVars, serverVars, threads, postgresVars>>

NextHeap == HeapSearchWordSimilarity \/ HeapSearchSimilarQuotes \/ HeapCosineSimilarity

SpecHeap == InitHeap /\ [][NextHeap]_vars

\* ================================================ tool calls in parallel
\* The tools of stage 4 are plain functions that share the globals
\* vectorstore and embeddings.  A thread runs one tool call in the steps
\* between which another thread can run: the test of the global, the call
\* that builds the handle, the assignment of the global, and the search.
Threads == {1, 2}

IdleThread == [pc |-> "idle"]

\* the embedding service of the parallel runs
ParallelEmbed == [w \in Words |-> IF w = <<"a">> THEN Ok(<<1, 0>>) ELSE Ok(<<1, 1>>)]

ToolCalls ==
    {[op |-> "search_quotes", topic |-> topic, k |-> 2, g |-> g] :
        topic \in {<<"a">>, <<" ">>}, g \in Geometries}
    \cup {[op |-> "compare_words", word1 |-> <<"a">>, word2 |-> w] : w \in {<<"b">>, <<" ">>}}
    \cup {[op |-> "search_word_similarity", word_pairs |-> <<<<<<"a">>, <<"b">>>>, <<<<"b">>, <<"b">>>>>>]}

\* the collection after one load of the data set
LoadedStore ==
    add_documents(<<>>, quotes_to_documents(QUOTES_DATA), [db |-> TRUE, emb |-> TRUE]).value

\* what the call returns when it runs from start to end with the global
\* handle at h and nothing else running
Alone(call, h, env) ==
    IF call.op = "search_quotes"
    THEN search_quotes(call.topic, call.k, h, Collection(store, call.g), env).outcome
    ELSE IF call.op = "compare_words"
    THEN compare_words(call.word1, call.word2, h, ParallelEmbed, env).outcome
    ELSE search_word_similarity(call.word_pairs, ParallelEmbed, env).outcome

EmbeddingsHandle == CustomEmbeddings([db |-> TRUE, emb |-> TRUE]).value

\* the global the call tests and sets
Global(call) == IF call.op = "search_quotes" THEN vectorstore ELSE embeddings

Done(t, outcome) ==
    [pc |-> "done", call |-> t.call, env |-> t.env, at_call |-> t.at_call,
     at_return |-> Global(t.call), result |-> outcome]

At(t, pc) == [pc |-> pc, call |-> t.call, env |-> t.env, at_call |-> t.at_call]

\* the handle published before it has been set up
handle_during_init_unconfigured(vs) == Unranked

\* the global while initialize_store runs: assigned only once the call has
\* returned, so still what it was
handle_during_init(vs) == vs

\* a thread takes a tool call
Invoke(i) ==
    /\ threads[i].pc = "idle"
    /\ \E call \in ToolCalls, env \in Envs :
         threads' = [threads EXCEPT ![i] =
                        [pc |-> "start", call |-> call, env |-> env, at_call |-> Global(call)]]
    /\ UNCHANGED <<vectorstore, embeddings>>

\* the checks of the arguments and the test "if vectorstore is None"
\* (search_word_similarity shares nothing and runs in one step)
Start(i) ==
    LET t == threads[i]
    IN  /\ t.pc = "start"
        /\ threads' = [threads EXCEPT ![i] =
              IF t.call.op = "search_word_similarity"
              THEN Done(t, Alone(t.call, None, t.env))
              ELSE IF Alone(t.call, PGVector, t.env).kind = "ValueError"
              THEN Done(t, Alone(t.call, PGVector, t.env))
              ELSE IF Global(t.call) = None THEN At(t, "init") ELSE At(t, "use")]
        /\ UNCHANGED <<vectorstore, embeddings>>

\* vectorstore = initialize_store(..) / embeddings = CustomEmbeddings(..):
\* the call is entered
EnterInit(i) ==
    LET t == threads[i]
    IN  /\ t.pc = "init"
        /\ threads' = [threads EXCEPT ![i] = At(t, "connect")]
        /\ IF t.call.op = "search_quotes"
           THEN vectorstore' = handle_during_init(vectorstore) /\ UNCHANGED embeddings
           ELSE UNCHANGED <<vectorstore, embeddings>>

\* the call returns and the global is assigned, or it raises
FinishInit(i) ==
    LET t    == threads[i]
        made == IF t.call.op = "search_quotes" THEN initialize_store(t.env)
                ELSE CustomEmbeddings(t.env)
    IN  /\ t.pc = "connect"
        /\ IF made.kind # "ok"
           THEN /\ threads' = [threads EXCEPT ![i] = Done(t, Alone(t.call, None, t.env))]
                /\ UNCHANGED <<vectorstore, embeddings>>
           ELSE /\ threads' = [threads EXCEPT ![i] = At(t, "use")]
                /\ IF t.call.op = "search_quotes"
                   THEN vectorstore' = made.value /\ UNCHANGED embeddings
                   ELSE embeddings' = made.value /\ UNCHANGED vectorstore

\* search_similar_quotes(query=topic, vectorstore=vectorstore, k=k) with the
\* global as it is now / search_word_similarity(word_pairs=[(word1, word2)])
Use(i) ==
    LET t == threads[i]
    IN  /\ t.pc = "use"
        /\ threads' = [threads EXCEPT ![i] = Done(t, Alone(t.call, Global(t.call), t.env))]
        /\ UNCHANGED <<vectorstore, embeddings>>

\* the result goes to the client
Return(i) ==
    /\ threads[i].pc = "done"
    /\ threads' = [threads EXCEPT ![i] = IdleThread]
    /\ UNCHANGED <<vectorstore, embeddings>>

\* the server after initialize_services: each handle set or not, the
\* collection loaded or not
InitParallel ==
    /\ threads = [i \in Threads |-> IdleThread]
    /\ store \in {<<>>, LoadedStore}
    /\ vectorstore \in {None, PGVector}
    /\ embeddings \in {None, EmbeddingsHandle}
    /\ vectorstore3 = None
    /\ embeddings3 = None
    /\ response = None
    /\ NoCosineCall
    /\ NoObjects
    /\ SemanticApp

NextParallel ==
    /\ \E i \in Threads :
          Invoke(i) \/ Start(i) \/ EnterInit(i) \/ FinishInit(i) \/ Use(i) \/ Return(i)
    /\ UNCHANGED <<store, vectorstore3, embeddings3, response, cosVars, heapVars, postgresVars>>

SpecParallel == InitParallel /\ [][NextParallel]_vars

\* ------------------------------------------------------------ the responses
QuoteSearchOps == {"search_similar_quotes", "search_quotes", "search_quotes_endpoint"}

WordOps == {"search_word_similarity", "compare_words"}

Succeeded == ~Idle /\ response.outcome.kind = "ok"

\* a quote search that came back with scored quotes (GET /quotes without
\* a topic lists the quotes without scores and is no ranking)
RankedQuotes ==
    /\ Succeeded
    /\ response.op \in QuoteSearchOps
    /\ response.effects # <<>>
    /\ response.effects[Len(response.effects)] = "similarity_search_with_score"

RankedWords == Succeeded /\ response.op = "search_word_similarity"

NonIncreasing(r) == \A i \in 1..(Len(r) - 1) : r[i].similarity >= r[i + 1].similarity

ScoreNonIncreasing(r) ==
    \A i \in 1..(Len(r) - 1) : ~ScoreLess(r[i].similarity, r[i + 1].similarity)

AscendingDistance(rows) == \A i \in 1..(Len(rows) - 1) : rows[i].distance <= rows[i + 1].distance

RowSimilarity(p) == One - Distance(response.g, store[p])

RECURSIVE MinSimilarity(_)
MinSimilarity(r) ==
    IF Len(r) = 1 THEN r[1].similarity
    ELSE Min(r[1].similarity, MinSimilarity(Tail(r)))

Count(S) == Cardinality(S)

\* r holds n rows of the collection, each with its true similarity, none more
\* often than the collection holds it, and fewer than n rows of the collection
\* score strictly higher than the lowest of r
IsTopOfStore(r, n) ==
    /\ Len(r) = n
    /\ \A i \in DOMAIN r :
         /\ \E p \in DOMAIN store :
              /\ Document(store[p]).page_content = r[i].text
              /\ RowSimilarity(p) = r[i].similarity
         /\ Count({j \in DOMAIN r : r[j].text = r[i].text})
              <= Count({p \in DOMAIN store : Document(store[p]).page_content = r[i].text})
    /\ n > 0 => Count({p \in DOMAIN store :
                         RowSimilarity(p) > MinSimilarity(r)}) < n

\* a scored search over the PGVector store with limit k >= 1 on n >= k rows
LimitedSearch ==
    /\ RankedQuotes
    /\ response.vs = PGVector
    /\ response.k >= 1
    /\ Len(store) >= response.k

EffectiveK == IF response.op = "search_quotes" THEN Min(response.k, MaxK) ELSE response.k

C3_InvalidLimit ==
    (/\ ~Idle
     /\ response.op \in {"search_quotes", "search_similar_quotes"}
     /\ response.k < 1
     /\ response.env.db /\ response.env.emb) =>
        /\ response.outcome.kind = "ValueError"
        /\ \A i \in DOMAIN response.effects :
             response.effects[i] # "similarity_search_with_score"
        /\ response.raw = <<>>

\* the store was asked and had no document to give
StoreGaveNothing ==
    /\ ~Idle
    /\ response.op \in QuoteSearchOps
    /\ response.effects # <<>>
    /\ response.effects[Len(response.effects)]
         \in {"similarity_search_with_score", "similarity_search"}
    /\ response.env.db /\ response.env.emb
    /\ response.k >= 0
    /\ (store = <<>> \/ response.k = 0)

C5_DistanceToSimilarity ==
    RankedQuotes =>
        /\ Len(response.outcome.value) = Len(response.raw)
        /\ \A i \in DOMAIN response.raw :
             /\ response.outcome.value[i].similarity = One - response.raw[i].distance
             /\ response.outcome.value[i].text = response.raw[i].doc.page_content
             /\ response.outcome.value[i].category = response.raw[i].doc.metadata.category

C5_Witness ==
    /\ RankedQuotes
    /\ Len(response.raw) >= 2
    /\ \E i \in DOMAIN response.raw :
         /\ response.raw[i].distance = 2
         /\ response.outcome.value[i].similarity = 8

\* C6 as stated: a word similarity call that returns holds a genuine score
\* for every requested pair; a pair that failed never shows up as an entry
\* with a placeholder score.
C6_NoPartialFailure ==
    (Succeeded /\ response.op \in WordOps) =>
        \A i \in DOMAIN response.raw : "error" \notin DOMAIN response.raw[i]

\* ------------------------------------------------------------ blank queries
BlankQuery == ~Idle /\ response.op \in QuoteSearchOps /\ IsBlank(response.topic)

\* C13 as stated: every quote search with an empty or whitespace-only query
\* fails with ValueError (HTTP 400 at the endpoint) before the vector store
\* is initialised or queried and before any embedding is requested.
C13_Original ==
    BlankQuery =>
        /\ \/ response.outcome.kind = "ValueError"
           \/ /\ response.outcome.kind = "HTTPException"
              /\ response.outcome.status_code = 400
        /\ response.effects = <<>>

\* C13: search_similar_quotes and the search_quotes tool fail a blank query
\* with ValueError before the store is initialised or queried and before any
\* embedding is requested; GET /quotes of stage 3 takes a blank topic as "no
\* topic": it initialises the store when the handle is missing and lists the
\* quotes (at most AllQuotesK, without scores), or answers 503 or 500, never
\* 400.
C13_BlankQuery ==
    BlankQuery =>
        IF response.op \in {"search_similar_quotes", "search_quotes"}
        THEN /\ response.outcome.kind = "ValueError"
             /\ response.effects = <<>>
             /\ response.raw = <<>>
        ELSE /\ response.outcome.kind \in {"ok", "HTTPException"}
             /\ response.outcome.kind = "HTTPException" =>
                    response.outcome.status_code \in {503, 500}
             /\ response.outcome.kind = "ok" =>
                    /\ response.effects # <<>>
                    /\ response.effects[Len(response.effects)] = "similarity_search"
                    /\ Len(response.outcome.value) = Min(AllQuotesK, Len(store))
                    /\ \A i \in DOMAIN response.outcome.value :
                           DOMAIN response.outcome.value[i] = {"text", "category"}

\* the tool got a whitespace-only topic while its handle was missing and the
\* services were up, and left the handle missing
C13_Witness ==
    /\ BlankQuery
    /\ response.op = "search_quotes"
    /\ response.topic # <<>>
    /\ response.env.db /\ response.env.emb
    /\ response.vs = None /\ vectorstore = None
    /\ response.outcome.kind = "ValueError"
    /\ store # <<>>

\* ------------------------------------------------------------- equal scores
\* the entries of r whose score equals x, in the order they have in r
TiedWith(r, x) ==
    LET SameScore(e) == ScoreEq(e.similarity, x)
    IN  SelectSeq(r, SameScore)

\* C14: entries of a word ranking with equal scores keep the order they were
\* computed in (the order of the input pairs), whichever path gave the score:
\* a genuine 0.0, the zero-vector 0.0 or the placeholder of a failed pair
C14_StableTies ==
    RankedWords =>
        \A i \in DOMAIN response.raw :
            TiedWith(response.outcome.value, response.raw[i].similarity)
                = TiedWith(response.raw, response.raw[i].similarity)

\* a failed pair's placeholder and a genuine 0.0 tie and stay in input order
C14_Witness ==
    /\ RankedWords
    /\ Len(response.raw) = 2
    /\ "error" \in DOMAIN response.raw[1]
    /\ "error" \notin DOMAIN response.raw[2]
    /\ ScoreEq(response.raw[1].similarity, response.raw[2].similarity)
    /\ response.outcome.value = response.raw

\* ------------------------------------------------------- no mutated inputs
\* C15: a similarity or ranking call changes no list object that existed
\* before it (the vectors, the word-pair list, the store's result list, the
\* results of earlier calls), and a list it returns is an object that did
\* not exist before the call
C15_NoMutation ==
    [][/\ \A id \in DOMAIN heap : id \in DOMAIN heap' /\ heap'[id] = heap[id]
       /\ (heap_ret'.kind = "ok" /\ IsRef(heap_ret'.value)) =>
              /\ heap_ret'.value.ref \notin DOMAIN heap
              /\ heap_ret'.value.ref \in DOMAIN heap']_vars

\* two rankings of the same word-pair list have returned: two different
\* objects with the same entries, in another order than the input pairs
C15_Witness ==
    /\ Len(heap) = 3
    /\ heap[1].type = "word_pairs" /\ Len(heap[1].items) = 2
    /\ heap_ret = Ok(Ref(3))
    /\ heap[2].items = heap[3].items
    /\ heap[3].items[1].word1 = heap[1].items[2][1]
    /\ heap[3].items[1].word2 = heap[1].items[2][2]
    /\ heap[3].items[1] # heap[3].items[2]

\* ------------------------------------------------------------ parallel calls
\* the values of its global a call can meet when it runs alone: unset if
\* it was unset when the call came in, set if it is set when the call ends
\* (the handles are set once and never unset)
HandlesFor(t) ==
    {h \in {None} : t.at_call = None}
        \cup {h \in {IF t.call.op = "search_quotes" THEN PGVector ELSE EmbeddingsHandle} :
                 t.at_return # None}

\* C16: whatever the interleaving of the tool calls, the lazy setting of
\* the handles included, a call returns what it returns when it runs alone
C16_Isolation ==
    \A i \in DOMAIN threads :
        threads[i].pc = "done" =>
            \E h \in HandlesFor(threads[i]) :
                threads[i].result = Alone(threads[i].call, h, threads[i].env)

\* two searches came in while the handle was unset; one has set it and
\* returned its quotes while the other is still between its steps
C16_Witness ==
    /\ threads # <<>>
    /\ threads[1].pc = "done" /\ threads[2].pc \in {"init", "connect", "use"}
    /\ threads[1].call.op = "search_quotes" /\ threads[2].call.op = "search_quotes"
    /\ threads[1].at_call = None /\ threads[2].at_call = None
    /\ threads[1].result.kind = "ok" /\ threads[1].result.value # <<>>
    /\ vectorstore = PGVector

\* ------------------------------------------------- filling and emptying
\* the call a step has just completed
Completed(op) == response' # None /\ response'.op = op

NoDuplicates(seq) == \A i \in DOMAIN seq : \A j \in DOMAIN seq : i # j => seq[i] # seq[j]

Texts2(rows) == [i \in DOMAIN rows |-> rows[i].text]

\* C17 as stated: an init with force=False on a store that already holds
\* quotes is skipped and leaves the store unchanged, in stage 2 (the quotes
\* table) and in stage 3 (the collection).
C17_InitIdempotent ==
    [][/\ (Completed("init_quotes_endpoint") /\ ~response'.force /\ store # <<>>)
            => store' = store
       /\ (Completed("postgres_init_quotes_endpoint") /\ ~response'.force
              /\ quotes_db.rows # <<>>)
            => quotes_db'.rows = quotes_db.rows]_vars

\* C18 as stated: whatever inits (with or without force), cleans and starts
\* have run, the store holds at most 24 quotes and none twice, and a
\* retrieval of all quotes (k = 24) returns every stored quote.
C18_AtMostOnce ==
    /\ Len(store) <= NumQuotes
    /\ NoDuplicates(store)
    /\ Len(quotes_db.rows) <= NumQuotes
    /\ NoDuplicates(Texts2(quotes_db.rows))
    /\ (~Idle /\ response.op = "get_all_quotes" /\ response.outcome.kind = "ok")
          => Len(response.outcome.value) = Len(store)
    /\ (~Idle /\ response.op = "search_quotes_endpoint" /\ IsBlank(response.topic)
             /\ response.outcome.kind = "ok")
          => Len(response.outcome.value) = Len(store)

\* a load that went through: the init endpoint of stage 3, or the
\* initialize_quotes of a start of stage 3 or 4
LoadedCollection ==
    \/ /\ Completed("init_quotes_endpoint")
       /\ response'.outcome.kind = "ok" /\ response'.outcome.value.status = "success"
    \/ /\ Completed("lifespan") \/ Completed("initialize_services")
       /\ response'.quotes.kind = "ok" /\ response'.quotes.value.status = "success"

ServicesUp(env) == env.db /\ env.emb

\* C19: a successful clean leaves the store empty; an empty store stays
\* empty until a load goes through (the init endpoint, or the
\* initialize_quotes of a start in stages 3 and 4); listing an empty store
\* gives the empty list and the random quote of stage 2 finds none (404);
\* the table and the collection stay usable: an init with force=False on
\* the empty store with the services up loads the 24 quotes
C19_EmptyAfterClean ==
    [][/\ (Completed("clean_quotes_endpoint") /\ response'.outcome.kind = "ok")
            => store' = <<>>
       /\ (Completed("postgres_clean_quotes_endpoint") /\ response'.outcome.kind = "ok")
            => quotes_db'.rows = <<>> /\ quotes_db'.exists
       /\ (store = <<>> /\ store' # <<>>) => LoadedCollection
       /\ (quotes_db.rows = <<>> /\ quotes_db'.rows # <<>>)
            => /\ Completed("postgres_init_quotes_endpoint")
               /\ response'.outcome.kind = "ok"
       /\ (/\ \/ Completed("get_all_quotes")
              \/ Completed("search_quotes_endpoint") /\ IsBlank(response'.topic)
           /\ store = <<>>
           /\ response'.outcome.kind = "ok")
            => response'.outcome.value = <<>>
       /\ (Completed("get_all_quotes_endpoint") /\ quotes_db.rows = <<>>
              /\ response'.outcome.kind = "ok")
            => response'.outcome.value = <<>>
       /\ (Completed("get_random_quote_endpoint") /\ quotes_db.rows = <<>>
              /\ quotes_db.exists /\ response'.ok)
            => /\ response'.outcome.kind = "HTTPException"
               /\ response'.outcome.status_code = 404
       /\ (Completed("init_quotes_endpoint") /\ ~response'.force /\ store = <<>>
              /\ ServicesUp(response'.env))
            => /\ store' = LoadedStore
               /\ response'.outcome = Ok([status |-> "success", count |-> NumQuotes])
       /\ (Completed("postgres_init_quotes_endpoint") /\ ~response'.force
              /\ quotes_db.rows = <<>>
              /\ response'.env.table /\ response'.env.count /\ response'.env.failed = {})
            => /\ Texts2(quotes_db'.rows) = [i \in 1..NumQuotes |-> QUOTES_DATA[i].text]
               /\ response'.outcome = Ok([status |-> "success", count |-> NumQuotes])]_vars

\* the table was loaded, cleaned, and loaded again by an init with
\* force=False: it holds 24 rows and none of the first load
C19_Witness ==
    /\ ~Idle /\ response.op = "postgres_init_quotes_endpoint"
    /\ ~response.force
    /\ response.outcome = Ok([status |-> "success", count |-> NumQuotes])
    /\ Len(quotes_db.rows) = NumQuotes
    /\ quotes_db.rows[1].id = NumQuotes + 1

\* C20: GET /quote of stage 2 answers 500 when the database operation
\* fails, 404 (not turned into 500) when the table holds no quote, and
\* otherwise a quote with exactly the keys text and category, taken from
\* one stored row
C20_RandomQuote ==
    (~Idle /\ response.op = "get_random_quote_endpoint") =>
        IF ~response.ok \/ ~quotes_db.exists
        THEN /\ response.outcome.kind = "HTTPException"
             /\ response.outcome.status_code = 500
        ELSE IF quotes_db.rows = <<>>
        THEN /\ response.outcome.kind = "HTTPException"
             /\ response.outcome.status_code = 404
        ELSE /\ response.outcome.kind = "ok"
             /\ DOMAIN response.outcome.value = {"text", "category"}
             /\ \E i \in DOMAIN quotes_db.rows :
                    /\ quotes_db.rows[i].text = response.outcome.value.text
                    /\ quotes_db.rows[i].category = response.outcome.value.category

\* the table was loaded and cleaned, and GET /quote answered 404
C20_Witness ==
    /\ ~Idle /\ response.op = "get_random_quote_endpoint"
    /\ response.ok /\ quotes_db.exists
    /\ quotes_db.rows = <<>> /\ quotes_db.seq > 0
    /\ response.outcome.kind = "HTTPException"
    /\ response.outcome.status_code = 404

\* C21: GET /health of stage 3 and of stage 4 answers 200 with status
\* "healthy" exactly when all four checks pass (embedding service found,
\* database service yields a connection URI, vectorstore handle set,
\* embeddings handle set); otherwise it answers 503 with status
\* "unhealthy"; in both cases the body reports the outcome of every check.
HealthChecked == response # None /\ response.op = "health_check"

AllChecksPass ==
    /\ response.env.emb
    /\ response.env.db
    /\ response.vs # None
    /\ response.emb # None

C21_Health ==
    HealthChecked =>
        LET answer == response.outcome.value
            services == answer.content.services
        IN  /\ AllChecksPass =>
                answer.status_code = 200 /\ answer.content.status = "healthy"
            /\ ~AllChecksPass =>
                answer.status_code = 503 /\ answer.content.status = "unhealthy"
            /\ DOMAIN services = {"embedding", "database", "vectorstore", "embeddings"}
            /\ services.embedding = "ok" <=> response.env.emb
            /\ services.database = "ok" <=> response.env.db
            /\ services.vectorstore = "initialized" <=> response.vs # None
            /\ services.embeddings = "initialized" <=> response.emb # None

\* an unhealthy answer of stage 3 where only the embeddings handle is
\* missing, and a healthy answer of stage 4
C21_Witness ==
    /\ HealthChecked
    /\ response.stage = 3
    /\ response.env.emb /\ response.env.db
    /\ response.vs # None /\ response.emb = None
    /\ response.outcome.value.status_code = 503

C21_WitnessHealthy ==
    /\ HealthChecked
    /\ response.stage = 4
    /\ AllChecksPass
    /\ response.outcome.value.status_code = 200

\* C22: a start (lifespan of stage 3, initialize_services of stage 4) never
\* raises, whichever of its three steps (embedding client, vector store,
\* quote loading) fails, and a handle whose step was not reached is None
\* afterwards.
Started == response # None /\ response.op \in {"lifespan", "initialize_services"}

\* the handles of the stage that has started
StartedHandles ==
    IF response.op = "lifespan"
    THEN [vectorstore |-> vectorstore3, embeddings |-> embeddings3]
    ELSE [vectorstore |-> vectorstore, embeddings |-> embeddings]

\* step 2 is reached when step 1 returned, step 3 when step 2 returned
StoreStepReached == CustomEmbeddings(response.env).kind = "ok"

QuotesStepReached == StoreStepReached /\ initialize_store(response.env).kind = "ok"

C22_WitnessNotReached ==
    /\ Started
    /\ ~StoreStepReached
    /\ StartedHandles = [vectorstore |-> None, embeddings |-> None]

\* ------------------------------------------------- the handles of a process
\* the calls that initialise a missing handle, with the global each one uses
VectorStoreTools == {"search_quotes", "get_random_quote", "get_all_quotes"}

VectorStoreEndpoints == {"search_quotes_endpoint", "init_quotes_endpoint"}

CompletedOneOf(ops) == response' # None /\ response'.op \in ops

NotAvailable(outcome) ==
    \/ /\ outcome.kind = "Exception"
       /\ outcome.message \in {"Vector store not available", "Embedding service not available"}
    \/ /\ outcome.kind = "HTTPException"
       /\ outcome.status_code = 503

\* a call that found the handle missing (before = None): made is what the
\* initialisation gives with the services as the call met them
Reinitialised(before, after, made, outcome) ==
    before = None =>
        IF made.kind = "ok"
        THEN after = made.value /\ ~NotAvailable(outcome)
        ELSE after = None /\ NotAvailable(outcome)

\* the arguments pass the checks the tool makes before it looks at the handle
ValidArguments(call) ==
    IF call.op = "search_quotes" THEN ~IsBlank(call.topic) /\ call.k >= 1
    ELSE IF call.op = "compare_words"
    THEN ~IsBlank(call.word_pairs[1][1]) /\ ~IsBlank(call.word_pairs[1][2])
    ELSE TRUE

\* a handle that is set stays set, and stays the same object
HandlesKept ==
    /\ vectorstore # None => vectorstore' = vectorstore
    /\ embeddings # None => embeddings' = embeddings
    /\ vectorstore3 # None => vectorstore3' # None
    /\ embeddings3 # None => embeddings3' = embeddings3

\* C23 as stated: every call of a stage-4 tool, of GET /quotes or of POST
\* /quotes/init of stage 3 that finds its handle None tries to initialise
\* it: on success the handle is stored, on failure the call fails with a
\* "not available" error (503 in stage 3) and the handle stays None; a
\* handle that is set is never reset to None.
C23_Original ==
    [][/\ CompletedOneOf(VectorStoreTools) =>
            Reinitialised(vectorstore, vectorstore',
                          initialize_store(response'.env), response'.outcome)
       /\ CompletedOneOf({"compare_words"}) =>
            Reinitialised(embeddings, embeddings',
                          CustomEmbeddings(response'.env), response'.outcome)
       /\ CompletedOneOf(VectorStoreEndpoints) =>
            Reinitialised(vectorstore3, vectorstore3',
                          initialize_store(response'.env), response'.outcome)
       /\ HandlesKept]_vars

\* C23, amended: the same for every call whose arguments pass the tool's
\* validation; search_quotes and compare_words validate their arguments
\* first, and a call they reject raises ValueError without an attempt to
\* initialise and leaves the handle as it was.
C23_LazyInit ==
    [][/\ (CompletedOneOf(VectorStoreTools) /\ ValidArguments(response')) =>
            Reinitialised(vectorstore, vectorstore',
                          initialize_store(response'.env), response'.outcome)
       /\ (CompletedOneOf({"compare_words"}) /\ ValidArguments(response')) =>
            Reinitialised(embeddings, embeddings',
                          CustomEmbeddings(response'.env), response'.outcome)
       /\ CompletedOneOf(VectorStoreEndpoints) =>
            Reinitialised(vectorstore3, vectorstore3',
                          initialize_store(response'.env), response'.outcome)
       /\ (CompletedOneOf({"search_quotes", "compare_words"}) /\ ~ValidArguments(response')) =>
            /\ response'.outcome.kind = "ValueError"
            /\ response'.effects = <<>>
            /\ vectorstore' = vectorstore /\ embeddings' = embeddings
       /\ HandlesKept]_vars

\* a search_quotes call that found the handle missing, initialised it and
\* searched with it
C23_Witness ==
    /\ response # None /\ response.op = "search_quotes"
    /\ response.effects # <<>> /\ Head(response.effects) = "initialize_store"
    /\ response.outcome.kind = "ok"
    /\ vectorstore = PGVector

\* a GET /quotes of stage 3 that could not initialise the handle
C23_WitnessFailed ==
    /\ response # None /\ response.op = "search_quotes_endpoint"
    /\ response.outcome.kind = "HTTPException" /\ response.outcome.status_code = 503
    /\ vectorstore3 = None

\* C24 as stated: the count that load_quotes_to_db returns, and that POST
\* /quotes/init of stage 2 reports, is the number of rows the call
\* inserted, in every case: also with force=False on a table that holds
\* rows, and when some of the inserts fail.
C24_LoadedCount ==
    [][(Completed("postgres_init_quotes_endpoint") /\ response'.outcome.kind = "ok")
          => response'.outcome.value.count = Len(quotes_db'.rows) - Len(quotes_db.rows)]_vars

\* --------------------------------------------- the status codes of GET /quotes
\* a GET /quotes of stage 3 that was answered with an error
QuotesEndpointFailed ==
    /\ ~Idle /\ response.op = "search_quotes_endpoint"
    /\ response.outcome.kind # "ok"

\* the handle was missing and initialize_store raised
StoreNotInitialised ==
    /\ response.effects # <<>> /\ Head(response.effects) = "initialize_store"
    /\ initialize_store(response.env).kind # "ok"

\* what the similarity_search_with_score of the call gave inside
\* search_similar_quotes: the rows, or the exception it raised there
RaisedInSearch ==
    similarity_search_with_score(PGVector, Collection(store, response.g), response.k,
                                 response.env)

SearchRaisedValueError ==
    /\ ~StoreNotInitialised
    /\ ~IsBlank(response.topic)
    /\ RaisedInSearch.kind = "ValueError"

====
